---- MODULE Spec2Model ----
(***************************************************************************)
(* Menu toggle controller of static/script.js: a click listener on the     *)
(* menu icon toggles the class 'active' on the <nav> element, and a click  *)
(* listener on the document removes it when the click target lies outside  *)
(* both the <nav> element and the icon.                                     *)
(*                                                                         *)
(* The host is modelled as far as the script depends on it: a DOM tree     *)
(* (parent links), the two element lookups, listener registration, the     *)
(* bubbling dispatch of a click along the path from its target to the      *)
(* document, and the task queue that serialises clicks.                    *)
(***************************************************************************)
EXTENDS Integers, Sequences, FiniteSets, TLC

\* ------------------------------------------------------------------ bounds
MaxQueue == 2       \* clicks waiting in the host's task queue
MaxClicks == 4      \* clicks dispatched in one behaviour

\* ------------------------------------------------------------------ the DOM
NULL == "null"
DOCUMENT == "document"

\* Documents the script may be loaded into.  Each is a parent map over the
\* nodes that exist; "menu-icon" is the element with id 'menu-icon' and
\* "nav" the <nav> element.
DocIconBesideNav ==
    ( "body" :> DOCUMENT @@ "main" :> "body"
      @@ "nav" :> "body" @@ "navLink" :> "nav"
      @@ "menu-icon" :> "body" @@ "iconGlyph" :> "menu-icon" )

DocIconInsideNav ==
    ( "body" :> DOCUMENT @@ "main" :> "body"
      @@ "nav" :> "body" @@ "navLink" :> "nav"
      @@ "menu-icon" :> "nav" @@ "iconGlyph" :> "menu-icon" )

DocWithoutIcon ==
    ( "body" :> DOCUMENT @@ "main" :> "body"
      @@ "nav" :> "body" @@ "navLink" :> "nav" )

DocWithoutNav ==
    ( "body" :> DOCUMENT @@ "main" :> "body"
      @@ "menu-icon" :> "body" @@ "iconGlyph" :> "menu-icon" )

DocWithoutBoth ==
    ( "body" :> DOCUMENT @@ "main" :> "body" )

Documents ==
    { DocIconBesideNav, DocIconInsideNav, DocWithoutIcon, DocWithoutNav,
      DocWithoutBoth }

\* Class sets the <nav> element may carry in the markup besides 'active'.
MarkupClassSets == { {}, {"navbar"} }

VARIABLES
    parent,     \* the DOM tree: element -> parent node
    classList,  \* the class set of the <nav> element
    menuIcon,   \* const menuIcon (line 2)
    nav,        \* const nav (line 3)
    listeners,  \* registered click listeners, in registration order
    phase,      \* "parsing" before the script has run, "loaded" after
    queue,      \* click targets waiting to be dispatched
    cur,        \* the click being dispatched: <<[target, before, ran]>>, or <<>>
    pending,    \* listeners of the current click still to be invoked
    handled,    \* history: the clicks whose dispatch has completed
    raised      \* places where an uncaught TypeError was raised

vars ==
    << parent, classList, menuIcon, nav, listeners, phase, queue, cur,
       pending, handled, raised >>

Elements == DOMAIN parent

TagName(n) ==
    CASE n = "nav" -> "nav"
      [] n = "navLink" -> "a"
      [] n = "iconGlyph" -> "i"
      [] n = "menu-icon" -> "div"
      [] OTHER -> n

IdOf(n) == IF n = "menu-icon" THEN "menu-icon" ELSE ""

\* document.getElementById(id): the element with that id, or null.
getElementById(id) ==
    IF \E n \in Elements : IdOf(n) = id
    THEN CHOOSE n \in Elements : IdOf(n) = id
    ELSE NULL

\* document.querySelector(tag): an element with that tag name, or null.
querySelector(tag) ==
    IF \E n \in Elements : TagName(n) = tag
    THEN CHOOSE n \in Elements : TagName(n) = tag
    ELSE NULL

\* a.contains(b): b is a or a descendant of a.
RECURSIVE contains(_, _)
contains(a, b) ==
    IF b = a THEN TRUE
    ELSE IF b \in Elements THEN contains(a, parent[b])
    ELSE FALSE

\* classList.toggle(token) and classList.remove(token) on a class set.
classList_add(cls, token) == cls \cup {token}

classList_flip(cls, token) ==
    IF token \in cls THEN cls \ {token} ELSE cls \cup {token}

classList_toggle(cls, token) ==
    IF token \in cls THEN cls \ {token} ELSE cls \cup {token}

classList_keep(cls, token) == cls

classList_clear(cls, token) == {}

classList_remove(cls, token) == cls \ {token}

\* The condition of the document listener (line 11).
OnlyOutsideNav(target) == ~contains(nav, target)

OnlyOutsideIcon(target) == ~contains(menuIcon, target)

OutsideEither(target) == ~contains(nav, target) \/ ~contains(menuIcon, target)

IsOutside(target) == ~contains(nav, target) /\ ~contains(menuIcon, target)

\* The propagation path of an event: its target, then each ancestor up to
\* the document.
RECURSIVE EventPath(_)
EventPath(n) ==
    IF n \in Elements THEN <<n>> \o EventPath(parent[n]) ELSE <<n>>

\* The listeners registered on node n, in registration order.
ListenersOn(n) ==
    SelectSeq(listeners, LAMBDA l : l.node = n)

RECURSIVE ListenersAlong(_)
ListenersAlong(path) ==
    IF path = <<>> THEN <<>>
    ELSE ListenersOn(Head(path)) \o ListenersAlong(Tail(path))

HandlersTargetOnly(target) ==
    LET ls == ListenersOn(target)
    IN  [i \in 1..Len(ls) |-> ls[i].handler]

\* The handlers a click on target invokes, in bubbling order.
HandlersFor(target) ==
    LET ls == ListenersAlong(EventPath(target))
    IN  [i \in 1..Len(ls) |-> ls[i].handler]

\* ------------------------------------------------------------------ state
Init ==
    /\ parent \in Documents
    /\ classList \in MarkupClassSets
    /\ menuIcon = NULL
    /\ nav = NULL
    /\ listeners = <<>>
    /\ phase = "parsing"
    /\ queue = <<>>
    /\ cur = <<>>
    /\ pending = <<>>
    /\ handled = <<>>
    /\ raised = {}

\* The script runs as one task (lines 2-14).  menuIcon.addEventListener on a
\* null menuIcon raises a TypeError that ends the script before the document
\* listener is registered.
ScriptLoad ==
    /\ phase = "parsing"
    /\ menuIcon' = getElementById("menu-icon")
    /\ nav' = querySelector("nav")
    /\ IF menuIcon' = NULL
       THEN /\ raised' = raised \cup {"script"}
            /\ listeners' = listeners
       ELSE /\ raised' = raised
            /\ listeners' =
                 listeners \o << [node |-> menuIcon', handler |-> "iconClick"],
                                 [node |-> DOCUMENT, handler |-> "documentClick"] >>
    /\ phase' = "loaded"
    /\ UNCHANGED << parent, classList, queue, cur, pending, handled >>

\* The user clicks an element: the host queues a click task.
UserClick(target) ==
    /\ target \in Elements
    /\ Len(queue) < MaxQueue
    /\ Len(handled) + Len(cur) + Len(queue) < MaxClicks
    /\ queue' = Append(queue, target)
    /\ UNCHANGED << parent, classList, menuIcon, nav, listeners, phase, cur,
                    pending, handled, raised >>

DispatchPreempting ==
    /\ phase = "loaded"
    /\ queue # <<>>
    /\ Len(handled) < MaxClicks
    /\ cur' = << [target |-> Head(queue), before |-> classList, ran |-> <<>>] >>
    /\ pending' = HandlersFor(Head(queue))
    /\ queue' = Tail(queue)
    /\ UNCHANGED << parent, classList, menuIcon, nav, listeners, phase,
                    handled, raised >>

\* The host takes the next click task once the previous task has finished
\* and collects the listeners on its propagation path.
Dispatch ==
    /\ phase = "loaded"
    /\ cur = <<>>
    /\ queue # <<>>
    /\ Len(handled) < MaxClicks
    /\ cur' = << [target |-> Head(queue), before |-> classList, ran |-> <<>>] >>
    /\ pending' = HandlersFor(Head(queue))
    /\ queue' = Tail(queue)
    /\ UNCHANGED << parent, classList, menuIcon, nav, listeners, phase,
                    handled, raised >>

\* The icon listener (lines 5-7).  nav.classList on a null nav raises a
\* TypeError, which the host reports before it goes on to the next listener.
IconListener ==
    /\ cur # <<>>
    /\ pending # <<>>
    /\ Head(pending) = "iconClick"
    /\ IF nav = NULL
       THEN /\ raised' = raised \cup {"iconClick"}
            /\ classList' = classList
       ELSE /\ classList' = classList_toggle(classList, "active")
            /\ raised' = raised
    /\ pending' = Tail(pending)
    /\ cur' = << [cur[1] EXCEPT !.ran = Append(@, "iconClick")] >>
    /\ UNCHANGED << parent, menuIcon, nav, listeners, phase, queue, handled >>

\* The document listener (lines 10-14).  nav.contains on a null nav raises a
\* TypeError.
DocumentListener ==
    /\ cur # <<>>
    /\ pending # <<>>
    /\ Head(pending) = "documentClick"
    /\ IF nav = NULL
       THEN /\ raised' = raised \cup {"documentClick"}
            /\ classList' = classList
       ELSE /\ classList' =
                 IF IsOutside(cur[1].target)
                 THEN classList_remove(classList, "active")
                 ELSE classList
            /\ raised' = raised
    /\ pending' = Tail(pending)
    /\ cur' = << [cur[1] EXCEPT !.ran = Append(@, "documentClick")] >>
    /\ UNCHANGED << parent, menuIcon, nav, listeners, phase, queue, handled >>

\* Every listener of the click has returned: the click task ends.
DispatchDone ==
    /\ cur # <<>>
    /\ pending = <<>>
    /\ handled' = Append(handled, [target |-> cur[1].target,
                                   before |-> cur[1].before,
                                   after |-> classList,
                                   ran |-> cur[1].ran])
    /\ cur' = <<>>
    /\ UNCHANGED << parent, classList, menuIcon, nav, listeners, phase, queue,
                    pending, raised >>

Next ==
    \/ ScriptLoad
    \/ \E target \in Elements : UserClick(target)
    \/ Dispatch
    \/ IconListener
    \/ DocumentListener
    \/ DispatchDone

Spec == Init /\ [][Next]_vars

\* ------------------------------------------------------------------ claims
Open(cls) == "active" \in cls

Active == Open(classList)

\* Both lookups resolved: the script loaded and holds two elements.
Operable == phase = "loaded" /\ menuIcon # NULL /\ nav # NULL

Idle == cur = <<>>

\* The region of the document a click target lies in.
Region(target) ==
    IF contains("menu-icon", target) THEN "icon"
    ELSE IF contains("nav", target) THEN "nav"
    ELSE "outside"

Range(seq) == { seq[i] : i \in 1..Len(seq) }

HandledRegions == [i \in 1..Len(handled) |-> Region(handled[i].target)]

BothListeners == << "iconClick", "documentClick" >>

\* C1: starting CLOSED, after N handled clicks that all target the icon's
\* subtree (each running the icon listener, then the document listener), the
\* marker is present iff N is odd.
C1_IconClickParity ==
    (Operable /\ Idle /\ \A i \in 1..Len(handled) : HandledRegions[i] = "icon")
        => /\ Active <=> (Len(handled) % 2 = 1)
           /\ \A i \in 1..Len(handled) : handled[i].ran = BothListeners

C1_Witness ==
    /\ Operable /\ Idle /\ Len(handled) = 3 /\ Active
    /\ \A i \in 1..Len(handled) : HandledRegions[i] = "icon"

\* C2: when the marker was present at the start of a click whose target is
\* in neither the nav nor the icon subtree, the marker is absent once the
\* document listener has finished.
C2_OutsideClickCloses ==
    ( /\ cur # <<>>
      /\ Open(cur[1].before)
      /\ Region(cur[1].target) = "outside"
      /\ "documentClick" \in Range(cur[1].ran) )
        => ~Active

C2_Witness ==
    /\ cur # <<>>
    /\ Open(cur[1].before)
    /\ Region(cur[1].target) = "outside"
    /\ "documentClick" \in Range(cur[1].ran)
    /\ ~Active

\* C3: a click inside the nav subtree but not inside the icon subtree,
\* handled while the marker is present, leaves the class set as it was, and
\* only the document listener runs for it.
C3_NavClickKeepsOpen ==
    \A i \in 1..Len(handled) :
        (Open(handled[i].before) /\ HandledRegions[i] = "nav")
            => /\ Open(handled[i].after)
               /\ handled[i].after = handled[i].before
               /\ handled[i].ran = << "documentClick" >>

C3_Witness ==
    \E i \in 1..Len(handled) :
        /\ Open(handled[i].before) /\ HandledRegions[i] = "nav"
        /\ Open(handled[i].after)

\* C4: an outside click handled while the marker is absent leaves it absent,
\* and of two consecutive outside clicks the second changes nothing.
C4_OutsideClickIdempotent ==
    /\ \A i \in 1..Len(handled) :
          (~Open(handled[i].before) /\ HandledRegions[i] = "outside")
              => handled[i].after = handled[i].before
    /\ \A i \in 1..Len(handled) : \A j \in i..Len(handled) :
          (\A k \in i..j : HandledRegions[k] = "outside")
              => handled[j].after = handled[i].after

C4_Witness ==
    /\ Operable
    /\ \E i \in 1..(Len(handled) - 2) :
          /\ HandledRegions[i] = "icon" /\ Open(handled[i].after)
          /\ HandledRegions[i + 1] = "outside"
          /\ HandledRegions[i + 2] = "outside"
          /\ ~Open(handled[i + 2].before)
          /\ ~Open(handled[i + 2].after)

\* Click i moved the marker from absent to present.
Opening(i) == ~Open(handled[i].before) /\ Open(handled[i].after)

\* The last opening was by an icon click and no click of a region in
\* `closers` has been handled since.
LastOpenedByIconAndNo(closers) ==
    \E i \in 1..Len(handled) :
        /\ Opening(i)
        /\ HandledRegions[i] = "icon"
        /\ \A j \in (i + 1)..Len(handled) :
              ~Opening(j) /\ HandledRegions[j] \notin closers

\* C5 as stated: between clicks, the marker is present iff the menu was last
\* opened by an icon click and no outside click has been handled since.
C5_Original ==
    (Operable /\ Idle) => (Active <=> LastOpenedByIconAndNo({"outside"}))

\* C5 as amended: between clicks, the marker is present iff the menu was last
\* opened by an icon click and neither an outside click nor another icon
\* click has been handled since.
C5_Amended ==
    (Operable /\ Idle) => (Active <=> LastOpenedByIconAndNo({"outside", "icon"}))

C5_Witness ==
    /\ Operable /\ Idle /\ ~Active
    /\ Len(handled) >= 2
    /\ Opening(Len(handled) - 1)
    /\ HandledRegions[Len(handled)] = "icon"

\* C6: a click inside the icon subtree runs the icon listener, which flips
\* the marker, then the document listener, which leaves it as the icon
\* listener set it, whether or not the icon is nested in the nav; two
\* consecutive icon clicks restore the marker.
C6_IconClickFlipsOnce ==
    /\ (Operable /\ cur # <<>> /\ Region(cur[1].target) = "icon")
          => \/ /\ cur[1].ran = <<>>
                /\ pending = BothListeners
                /\ Active = Open(cur[1].before)
             \/ /\ cur[1].ran = << "iconClick" >>
                /\ pending = << "documentClick" >>
                /\ Active = ~Open(cur[1].before)
             \/ /\ cur[1].ran = BothListeners
                /\ pending = <<>>
                /\ Active = ~Open(cur[1].before)
    /\ \A i \in 1..Len(handled) :
          (Operable /\ HandledRegions[i] = "icon")
              => /\ Open(handled[i].after) = ~Open(handled[i].before)
                 /\ (i > 1 /\ HandledRegions[i - 1] = "icon")
                       => handled[i].after = handled[i - 1].before

C6_Witness ==
    /\ parent = DocIconInsideNav
    /\ Len(handled) >= 2
    /\ HandledRegions[1] = "icon" /\ HandledRegions[2] = "icon"
    /\ ~Open(handled[1].before) /\ Open(handled[1].after)
    /\ ~Open(handled[2].after)

\* C7: the marker starts absent and changes only by the icon listener of a
\* click inside the icon subtree (either direction) or by the document
\* listener of an outside click (present to absent only).
C7_OnlyTransitions ==
    /\ ~Active
    /\ [][ (Active' # Active)
             => /\ cur # <<>>
                /\ pending # <<>>
                /\ \/ /\ Head(pending) = "iconClick"
                      /\ Region(cur[1].target) = "icon"
                   \/ /\ Head(pending) = "documentClick"
                      /\ Region(cur[1].target) = "outside"
                      /\ Active /\ ~Active' ]_vars

C7_Witness ==
    /\ Len(handled) >= 4
    /\ HandledRegions[1] = "outside" /\ ~Open(handled[1].after)
    /\ HandledRegions[2] = "icon" /\ Open(handled[2].after)
    /\ HandledRegions[3] = "outside" /\ ~Open(handled[3].after)
    /\ HandledRegions[4] = "nav" /\ ~Open(handled[4].after)

\* The marker after one click handled alone, by the region of its target.
SeqStep(open, region) ==
    IF region = "icon" THEN ~open
    ELSE IF region = "outside" THEN FALSE
    ELSE open

RECURSIVE Replay(_, _)
Replay(regions, open) ==
    IF regions = <<>> THEN open
    ELSE Replay(Tail(regions), SeqStep(open, Head(regions)))

\* The current click counts as applied once the listener that acts for its
\* region has run.
CurrentApplied ==
    IF cur = <<>> THEN <<>>
    ELSE IF \/ Region(cur[1].target) = "icon" /\ "iconClick" \in Range(cur[1].ran)
            \/ Region(cur[1].target) = "outside" /\ "documentClick" \in Range(cur[1].ran)
         THEN << Region(cur[1].target) >>
         ELSE <<>>

\* C8: however clicks queue up behind a running listener, the marker always
\* equals the result of applying the dispatched clicks one at a time in
\* dispatch order, and each click starts from the state its predecessor left.
C8_Serialized ==
    Operable =>
        /\ Active = Replay(HandledRegions \o CurrentApplied, FALSE)
        /\ \A i \in 2..Len(handled) : handled[i].before = handled[i - 1].after
        /\ pending # <<>> => cur # <<>>

C8_Witness ==
    /\ Operable
    /\ Len(handled) >= 1
    /\ cur # <<>> /\ cur[1].ran = << "iconClick" >>
    /\ Len(queue) = 2
    /\ Active = Replay(HandledRegions \o CurrentApplied, FALSE)

Scenario == << "icon", "outside", "icon", "nav" >>

ScenarioMarker == << TRUE, FALSE, TRUE, TRUE >>

\* C9: starting CLOSED, the clicks icon, outside, icon, inside-nav leave the
\* marker present, absent, present, present.
C9_Scenario ==
    Operable =>
        \A k \in 1..Len(Scenario) :
            (k <= Len(handled) /\ \A i \in 1..k : HandledRegions[i] = Scenario[i])
                => Open(handled[k].after) = ScenarioMarker[k]

C9_Witness ==
    /\ Operable /\ Idle
    /\ HandledRegions = Scenario
    /\ [i \in 1..Len(handled) |-> Open(handled[i].after)] = ScenarioMarker

\* C10: when a lookup did not resolve, the marker never changes and nothing
\* raises an error.
C10_UnresolvedIsSilent ==
    (phase = "loaded" /\ (menuIcon = NULL \/ nav = NULL))
        => (~Active /\ raised = {})

\* The class set one click leaves, by the class set before it and the region
\* of its target alone.
DeterminedAfter(before, region) ==
    IF region = "icon"
    THEN IF Open(before) THEN before \ {"active"} ELSE before \cup {"active"}
    ELSE IF region = "outside" THEN before \ {"active"}
    ELSE before

\* C11: the state after a handled click is a function of the state before it
\* and of the region of its target only: every handled click, in every
\* document shape and whatever was handled or queued around it, leaves the
\* class set that function gives, so equal starts and equal regions give
\* equal results.
C11_Deterministic ==
    Operable =>
        /\ \A i \in 1..Len(handled) :
              handled[i].after =
                  DeterminedAfter(handled[i].before, HandledRegions[i])
        /\ \A i \in 1..Len(handled) : \A j \in 1..Len(handled) :
              ( /\ handled[i].before = handled[j].before
                /\ HandledRegions[i] = HandledRegions[j] )
                  => handled[i].after = handled[j].after

C11_Witness ==
    /\ Operable
    /\ \E i \in 1..Len(handled) : \E j \in 1..Len(handled) :
          /\ i < j
          /\ handled[i].target # handled[j].target
          /\ HandledRegions[i] = "icon" /\ HandledRegions[j] = "icon"
          /\ handled[i].before = handled[j].before
          /\ handled[i].after = handled[j].after
          /\ handled[i].after # handled[i].before

\* The number of icon clicks handled since the most recent outside click, or
\* since the start when there was none.
RECURSIVE IconsSinceOutside(_)
IconsSinceOutside(regions) ==
    IF regions = <<>> THEN 0
    ELSE LET last == regions[Len(regions)]
             rest == SubSeq(regions, 1, Len(regions) - 1)
         IN  IF last = "outside" THEN 0
             ELSE IF last = "icon" THEN 1 + IconsSinceOutside(rest)
             ELSE IconsSinceOutside(rest)

\* C13: between clicks, starting CLOSED, the marker is present iff the number
\* of icon clicks handled since the most recent outside click is odd; clicks
\* inside the nav neither count nor change the state.
C13_OddIconsSinceOutside ==
    (Operable /\ Idle)
        => /\ Active <=> (IconsSinceOutside(HandledRegions) % 2 = 1)
           /\ \A i \in 1..Len(handled) :
                 HandledRegions[i] = "nav"
                     => handled[i].after = handled[i].before

C13_Witness ==
    /\ Operable /\ Idle /\ Active
    /\ HandledRegions = << "icon", "outside", "nav", "icon" >>

\* C14: once the script has run no step rebinds menuIcon or nav, adds or
\* removes a listener, or changes the document tree, and every class of the
\* nav element other than 'active' is the same before and after every step.
C14_Frame ==
    [][ phase = "loaded"
          => /\ menuIcon' = menuIcon
             /\ nav' = nav
             /\ listeners' = listeners
             /\ parent' = parent
             /\ phase' = phase
             /\ classList' \ {"active"} = classList \ {"active"} ]_vars

C14_Witness ==
    /\ Operable /\ Idle
    /\ Len(listeners) = 2
    /\ "navbar" \in classList
    /\ \E i \in 1..Len(handled) :
          HandledRegions[i] = "icon" /\ Open(handled[i].after)
    /\ \E i \in 1..Len(handled) :
          /\ HandledRegions[i] = "outside"
          /\ Open(handled[i].before) /\ ~Open(handled[i].after)
          /\ "navbar" \in handled[i].after

====
